---- MODULE Spec2Model ----
(***************************************************************************)
(* The crawl-and-assemble pipeline of the Three.js documentation scraper:  *)
(* cache store, link discovery with retry, per-page content extraction,    *)
(* document assembly and the orchestrating scrapeDocumentation run.        *)
(* src/src/scraper.js is the tested module; src/unnamed/part_000 holds a   *)
(* second copy of the same functions with extra debug logging.  The        *)
(* variable build says which of the two copies is running.                 *)
(***************************************************************************)
EXTENDS Integers, Sequences, FiniteSets, TLC

(***************************************************************************)
(* Bounds of the model                                                     *)
(***************************************************************************)
\* longest list of links the navigation panel can hold
MaxLinks == 11
\* longest panel that mixes different links
MaxVaried == 2
\* number of files lying in the cache directory when the process starts
MaxCacheFiles == 1
\* number of failures one run survives (a retried discovery attempt, a failed
\* cache write)
MaxFaults == 1
\* longest documentation array handed to generateHTML on its own
MaxDocs == 4
\* number of top-level elements in the body of a frame's document
MaxElements == 2
\* number of times the scraper is started over the same cache directory
MaxRuns == 2

(***************************************************************************)
(* Program constants                                                       *)
(***************************************************************************)
DEV_PAGE_LIMIT == 10
maxRetries == 2
BASE_URL == "https://threejs.org"
CACHE_VERSION == "1"

DOCS_URL == "docs/index.html#manual/en/introduction/Creating-a-scene"
UrlA == "docs/#api/en/A"
UrlB == "docs/#api/en/B"
Urls == {UrlA, UrlB}

\* a title holding a lone surrogate: encodeURIComponent throws URIError on it
LoneSurrogate == "\\uD800"

(***************************************************************************)
(* Errors.  name is the message, at the attempt or page it arose in, and   *)
(* has429 says whether the message carries the text "429".                 *)
(***************************************************************************)
Err(name, at, has429) == [name |-> name, at |-> at, has429 |-> has429]
NoError == Err("none", 0, FALSE)
RateLimitError == Err("Rate limit exceeded", 0, FALSE)

(***************************************************************************)
(* JSON values and cache files.  A value is null or an object with the set *)
(* keys of its defined properties.  content is a sequence of HTML tokens.  *)
(***************************************************************************)
PageKeys == {"title", "content", "hasMalformedHTML"}
JNull == [type |-> "null", keys |-> {}, title |-> "", content |-> <<>>,
          hasMalformedHTML |-> FALSE]
Obj(keys, title, content, mal) ==
    [type |-> "object", keys |-> keys,
     title |-> IF "title" \in keys THEN title ELSE "",
     content |-> IF "content" \in keys THEN content ELSE <<>>,
     hasMalformedHTML |-> IF "hasMalformedHTML" \in keys THEN mal ELSE FALSE]
Truthy(v) == v.type # "null"

File(kind, value) == [kind |-> kind, value |-> value]
Missing == File("missing", JNull)
Unreadable == File("unreadable", JNull)
Garbage == File("garbage", JNull)
JsonFile(v) == File("json", v)

\* crypto.createHash('md5').update(url).digest('hex')
md5(url) ==
    IF url = UrlA THEN "6d862cedb99370db7dba516ff5e83632"
    ELSE "42cb5ab09bf7a3ca0d3f446e51d273ba"

\* the file `${hash}_v${version}.json` of the cache directory; Versions are
\* the tag of the source and the tag after a change of the cache format
Versions == {CACHE_VERSION, "2"}
CacheFile(hash, version) == [hash |-> hash, version |-> version]
CacheFiles == {CacheFile(md5(u), v) : u \in Urls, v \in Versions}
EmptyCache == [f \in CacheFiles |-> Missing]

\* what a cache file found at start-up may hold
StoredValues ==
    { JNull,
      Obj({}, "", <<>>, FALSE),
      Obj({"content"}, "", <<"<p>", "old", "</p>">>, FALSE),
      Obj(PageKeys, "Cached Page", <<"<div>", "Cached content", "</div>">>, FALSE) }
StartFiles == {Unreadable, Garbage} \cup {JsonFile(v) : v \in StoredValues}

\* the cache directories found at start-up: up to MaxCacheFiles files, left
\* there alike by whatever wrote them
StartCaches ==
    { [c \in CacheFiles |->
          IF c \in {CacheFile(md5(u), CACHE_VERSION) : u \in S} THEN f ELSE Missing] :
         S \in {T \in SUBSET {UrlA, UrlB} : Cardinality(T) <= MaxCacheFiles}, f \in StartFiles }

(***************************************************************************)
(* The documentation site                                                  *)
(***************************************************************************)
Link(url, text, section) == [url |-> url, text |-> text, section |-> section]
LinkA == Link(UrlA, "Scene", "Manual")
LinkB == Link(UrlB, "A B", "")
LinkBad == Link(UrlA, LoneSurrogate, "Manual")
LinkRecords == {LinkA, LinkB, LinkBad}

RECURSIVE Fill(_, _)
Fill(n, x) == IF n = 0 THEN <<>> ELSE <<x>> \o Fill(n - 1, x)

\* the first n links of a panel that repeats cycle
Repeat(cycle, n) == [k \in 1..n |-> cycle[((k - 1) % Len(cycle)) + 1]]

\* the panels the site may show: short mixed ones, and long ones filled with
\* copies of one link as in the DEV_MODE test
Panels ==
    {Repeat(cycle, n) : cycle \in {<<LinkA>>, <<LinkB, LinkA>>, <<LinkA, LinkBad>>},
                        n \in 0..MaxVaried}
      \cup {Fill(n, LinkA) : n \in DEV_PAGE_LIMIT..MaxLinks}

\* the serialized content region of the page behind a url
InnerHTML(url) ==
    IF url = UrlA THEN <<"<p>", "a", "</p>">>
    ELSE <<"<div>", "b", "</div>", "</p>">>

VARIABLES
    config,          \* [DEV_MODE, USE_CACHE, CACHE_VERSION]
    CLEAR_CACHE,     \* --clear-cache was on the command line
    build,           \* "scraper" (src/src/scraper.js) or "debug" (part_000)
    testPage,        \* the caller supplied a page
    panel,           \* the links the site's navigation panel shows
    cacheDir,        \* the cache directory exists
    cache,           \* the files of the cache directory
    pc,              \* position of scrapeDocumentation
    error,           \* the error being thrown / the run failed with
    launched,        \* puppeteer.launch has succeeded
    browser,         \* the run's variable browser is set
    closed,          \* browser.close() was called
    attempts,        \* extractLinks: attempts
    attemptLog,      \* extractLinks: outcome of every attempt made
    delays,          \* extractLinks: inter-attempt delays slept
    links,           \* result of extractLinks
    pagesToProcess,
    idx,             \* 1-based position of the for loop in pagesToProcess
    calls,           \* one record per extractContent call
    documentation,
    html,            \* result of generateHTML
    browserLog,      \* every operation issued on the page or its frame
    fsLog,           \* every fs call on the cache and output directories
    outputFile,      \* docs/index.html
    input,           \* argument of an exported function called on its own
    output,          \* what that call returned or threw
    previous         \* the runs that ended before this one began

vars == <<config, CLEAR_CACHE, build, testPage, panel, cacheDir, cache, pc, error,
          launched, browser, closed, attempts, attemptLog, delays, links,
          pagesToProcess, idx, calls, documentation, html, browserLog, fsLog,
          outputFile, input, output, previous>>

\* what no step of scrapeDocumentation changes
envVars == <<config, CLEAR_CACHE, build, testPage, panel, input, output, previous>>

NoHtml == [built |-> FALSE, roots |-> <<>>, toc |-> <<>>, content |-> <<>>]
NoFile == [written |-> FALSE, html |-> NoHtml]
NoFrame == [handle |-> "ok", manual |-> FALSE, dom |-> <<>>]
NoInput == [kind |-> "none", docs |-> <<>>, frame |-> NoFrame]
NoOutput ==
    [kind |-> "none", error |-> "", html |-> NoHtml, result |-> JNull, dom |-> <<>>,
     ran |-> <<>>]

Init ==
    /\ config \in [DEV_MODE : BOOLEAN, USE_CACHE : BOOLEAN, CACHE_VERSION : {CACHE_VERSION}]
    /\ CLEAR_CACHE \in BOOLEAN
    /\ build \in {"scraper", "debug"}
    /\ testPage \in BOOLEAN
    /\ panel \in Panels
    /\ cacheDir \in BOOLEAN
    /\ cache \in StartCaches
    /\ cache # EmptyCache => cacheDir
    /\ pc = "start"
    /\ error = NoError
    /\ launched = FALSE
    /\ browser = FALSE
    /\ closed = FALSE
    /\ attempts = 0
    /\ attemptLog = <<>>
    /\ delays = 0
    /\ links = <<>>
    /\ pagesToProcess = <<>>
    /\ idx = 1
    /\ calls = <<>>
    /\ documentation = <<>>
    /\ html = NoHtml
    /\ browserLog = <<>>
    /\ fsLog = <<>>
    /\ outputFile = NoFile
    /\ input = NoInput
    /\ output = NoOutput
    /\ previous = <<>>

(***************************************************************************)
(* initializeCache and the early exit of scrapeDocumentation               *)
(***************************************************************************)
Throw(e) == error' = e /\ pc' = "finally"

AfterCacheSetup_NoExit == "browser"

\* "if (CLEAR_CACHE) { ... return; }" after initializeCache
AfterCacheSetup == IF CLEAR_CACHE THEN "Done" ELSE "browser"

\* "fs.rm(config.CACHE_DIR, { recursive: true, force: true })": force makes a
\* directory that is not there no error; fault is any other failure
RmThrows(present, fault) == present /\ fault

WipeRejects_NoCatch(threw) == threw

\* the try/catch around fs.rm logs the error and goes on
WipeRejects(threw) == FALSE

InitializeCache ==
    /\ pc = "start"
    /\ \E fault \in BOOLEAN, mkdirOk \in BOOLEAN :
         LET threw == CLEAR_CACHE /\ RmThrows(cacheDir, fault)
             wiped == CLEAR_CACHE /\ ~threw
             rmLog == IF CLEAR_CACHE THEN <<IF threw THEN "rm failed" ELSE "rm">> ELSE <<>>
         IN  IF WipeRejects(threw)
                THEN /\ mkdirOk
                     /\ fsLog' = fsLog \o rmLog
                     /\ pc' = "Failed"
                     /\ error' = Err("rm failed", 0, FALSE)
                     /\ UNCHANGED <<cache, cacheDir>>
                ELSE /\ cache' = IF wiped THEN EmptyCache ELSE cache
                     /\ cacheDir' = IF mkdirOk THEN TRUE ELSE (cacheDir /\ ~wiped)
                     /\ fsLog' = fsLog \o rmLog
                                       \o <<IF mkdirOk THEN "mkdir cache" ELSE "mkdir cache failed">>
                     /\ IF ~mkdirOk
                           THEN /\ pc' = "Failed"
                                /\ error' = Err("mkdir failed", 0, FALSE)
                           ELSE /\ pc' = AfterCacheSetup
                                /\ error' = error
    /\ UNCHANGED <<envVars, launched, browser, closed, attempts, attemptLog, delays,
                   links, pagesToProcess, idx, calls, documentation, html,
                   browserLog, outputFile>>

(***************************************************************************)
(* createBrowser, or the page handed in by the caller                      *)
(***************************************************************************)
BrowserOutcomes == {"ok", "launch failed", "newPage failed"}

ObtainPage ==
    /\ pc = "browser"
    /\ IF testPage
          THEN /\ pc' = "discover"
               /\ UNCHANGED <<launched, browser, error>>
          ELSE \E outcome \in BrowserOutcomes :
                 \* browser is assigned by the destructuring at the call site,
                 \* which runs only when createBrowser returns
                 /\ launched' = (outcome # "launch failed")
                 /\ browser' = (outcome = "ok")
                 /\ IF outcome = "ok"
                       THEN pc' = "discover" /\ error' = error
                       ELSE Throw(Err(outcome, 0, FALSE))
    /\ UNCHANGED <<envVars, cacheDir, cache, closed, attempts, attemptLog, delays,
                   links, pagesToProcess, idx, calls, documentation, html,
                   browserLog, fsLog, outputFile>>

(***************************************************************************)
(* extractLinks                                                            *)
(***************************************************************************)
Op(name, arg) == [op |-> name, arg |-> arg]

\* the operations one attempt issues when it fails at stage ("none": never)
DiscoverStages == {"goto", "waitForSelector", "evaluate", "none"}
DiscoverOps(stage) ==
    <<Op("goto", DOCS_URL)>>
      \o (IF stage = "goto" THEN <<>> ELSE <<Op("waitForSelector", "#panel")>>)
      \o (IF stage \in {"goto", "waitForSelector"} THEN <<>> ELSE <<Op("evaluate", "docLinks")>>)

IsRateLimit_Never(e) == FALSE

\* "error.message.includes('429')"
IsRateLimit(e) == e.has429

LastAttempt_Never(n) == FALSE

\* "attempts === maxRetries"
LastAttempt(n) == n = maxRetries

Min(a, b) == IF a < b THEN a ELSE b
slice(s, n) == SubSeq(s, 1, Min(n, Len(s)))

SelectPages_NoCeiling(ls) == ls

\* "config.DEV_MODE ? links.slice(0, config.DEV_PAGE_LIMIT) : links"
SelectPages(ls) == IF config.DEV_MODE THEN slice(ls, DEV_PAGE_LIMIT) ELSE ls

Attempt(n, outcome, e) == [n |-> n, outcome |-> outcome, error |-> e]

DiscoveryFailed_Swallowed(e) == pc' = "extract" /\ error' = error

\* "const links = await extractLinks(page)": a rejection is caught only by
\* the catch of scrapeDocumentation, which rethrows it
DiscoveryFailed(e) == Throw(e)

ExtractLinksAttempt ==
    /\ pc = "discover"
    /\ attempts < maxRetries
    /\ \E stage \in DiscoverStages, has429 \in BOOLEAN :
         LET n == Len(attemptLog) + 1
             e == Err(stage, n, has429)
         IN  /\ browserLog' = browserLog \o DiscoverOps(stage)
             /\ IF stage = "none"
                   THEN /\ has429 = FALSE
                        /\ attemptLog' = Append(attemptLog, Attempt(n, "ok", NoError))
                        /\ links' = panel
                        /\ pagesToProcess' = SelectPages(panel)
                        /\ pc' = "extract"
                        /\ UNCHANGED <<attempts, error>>
                   ELSE /\ UNCHANGED <<links, pagesToProcess>>
                        /\ IF IsRateLimit(e)
                              THEN /\ attemptLog' = Append(attemptLog, Attempt(n, "failed", e))
                                   /\ DiscoveryFailed(RateLimitError)
                                   /\ UNCHANGED attempts
                              ELSE /\ attemptLog' = Append(attemptLog, Attempt(n, "failed", e))
                                   /\ attempts' = attempts + 1
                                   /\ IF LastAttempt(attempts + 1)
                                         THEN DiscoveryFailed(e)
                                         ELSE pc' = "delay" /\ error' = error
    /\ UNCHANGED <<envVars, cacheDir, cache, launched, browser, closed, delays, idx,
                   calls, documentation, html, fsLog, outputFile>>

\* the setTimeout(resolve, 1000) between two attempts
Delay ==
    /\ pc = "delay"
    /\ delays' = delays + 1
    /\ pc' = "discover"
    /\ UNCHANGED <<envVars, cacheDir, cache, error, launched, browser, closed, attempts,
                   attemptLog, links, pagesToProcess, idx, calls, documentation, html,
                   browserLog, fsLog, outputFile>>

(***************************************************************************)
(* Cache store                                                             *)
(***************************************************************************)
getCacheKey_Unversioned(url) == CacheFile(md5(url), CACHE_VERSION)

\* getCacheKey: the file a url is cached in
getCacheKey(url) == CacheFile(md5(url), config.CACHE_VERSION)

getFromCache_NoCatch(url) ==
    IF ~config.USE_CACHE
       THEN [value |-> JNull, thrown |-> FALSE, reads |-> 0]
       ELSE [value |-> IF cache[getCacheKey(url)].kind = "json" THEN cache[getCacheKey(url)].value ELSE JNull,
             thrown |-> cache[getCacheKey(url)].kind # "json",
             reads |-> 1]

getFromCache_IgnoresToggle(url) ==
    [value |-> IF cache[getCacheKey(url)].kind = "json" THEN cache[getCacheKey(url)].value ELSE JNull,
     thrown |-> FALSE,
     reads |-> 1]

\* getFromCache: the value returned (JNull for null), whether the call threw,
\* and the number of fs.readFile calls it made
getFromCache(url) ==
    IF ~config.USE_CACHE
       THEN [value |-> JNull, thrown |-> FALSE, reads |-> 0]
       ELSE [value |-> IF cache[getCacheKey(url)].kind = "json" THEN cache[getCacheKey(url)].value ELSE JNull,
             thrown |-> FALSE,
             reads |-> 1]

\* JSON.stringify keeps the defined properties
Stringify(data) == Obj(data.keys, data.title, data.content, data.hasMalformedHTML)

saveToCache_Discards(url, data, w) ==
    [cache |-> cache, thrown |-> FALSE, writes |-> IF config.USE_CACHE THEN 1 ELSE 0]

saveToCache_NoCatch(url, data, w) ==
    IF ~config.USE_CACHE
       THEN [cache |-> cache, thrown |-> FALSE, writes |-> 0]
       ELSE [cache |-> CASE w = "ok" -> [cache EXCEPT ![getCacheKey(url)] = JsonFile(data)]
                         [] w = "partial" -> [cache EXCEPT ![getCacheKey(url)] = Garbage]
                         [] OTHER -> cache,
             thrown |-> w # "ok",
             writes |-> 1]

\* saveToCache when fs.writeFile ends as w: the cache afterwards, whether the
\* call threw, and the number of fs.writeFile calls it made
WriteOutcomes == {"ok", "error", "partial"}
saveToCache(url, data, w) ==
    IF ~config.USE_CACHE
       THEN [cache |-> cache, thrown |-> FALSE, writes |-> 0]
       ELSE [cache |-> CASE w = "ok" -> [cache EXCEPT ![getCacheKey(url)] = JsonFile(Stringify(data))]
                         [] w = "partial" -> [cache EXCEPT ![getCacheKey(url)] = Garbage]
                         [] OTHER -> cache,
             thrown |-> FALSE,
             writes |-> 1]

(***************************************************************************)
(* extractContent and the loop of scrapeDocumentation around it            *)
(***************************************************************************)
CacheHit_Never(cached) == FALSE

\* "if (cached)"
CacheHit(cached) == Truthy(cached)

\* Buffer.byteLength(cached.content, 'utf8') of the debug copy throws a
\* TypeError unless content is a string
HitLogThrows(cached) == build = "debug" /\ "content" \notin cached.keys

MalformedPatterns_Shorter == { <<"</div>", "</p>">>, <<"<div>", "</p>">> }

\* the frame's content region checked against malformedPatterns
MalformedPatterns ==
    { <<"</div>", "</p>">>, <<"<p>", "</div>">>, <<"<div>", "</p>">> }
HasMalformedHTML(h) ==
    \E i \in 1..(Len(h) - 1) : <<h[i], h[i + 1]>> \in MalformedPatterns

\* where a fresh extraction ends; "ok" is the only one that returns
FreshOutcomes ==
    {"goto failed", "Timeout waiting for iframe", "No iframe found",
     "Failed to get iframe content", "body wait failed", "evaluate failed",
     "No content found", "ok"}

\* rank of the last operation issued for an outcome
LastOp(outcome) ==
    CASE outcome = "goto failed" -> 1
      [] outcome = "Timeout waiting for iframe" -> 2
      [] outcome = "No iframe found" -> 3
      [] outcome = "Failed to get iframe content" -> 4
      [] outcome = "body wait failed" -> 5
      [] OTHER -> 6

FreshOps_Prefetch(url, outcome) ==
    SubSeq(<<Op("goto", url), Op("goto", IF url = UrlA THEN UrlB ELSE UrlA),
             Op("waitForSelector", "iframe"), Op("$", "iframe"),
             Op("contentFrame", "iframe"), Op("frame.waitForSelector", "body"),
             Op("frame.evaluate", "extractFrameContent")>>,
           1, LastOp(outcome) + 1)

\* the operations a fresh extraction issues, each awaited before the next
FreshOps(url, outcome) ==
    SubSeq(<<Op("goto", url), Op("waitForSelector", "iframe"), Op("$", "iframe"),
             Op("contentFrame", "iframe"), Op("frame.waitForSelector", "body"),
             Op("frame.evaluate", "extractFrameContent")>>,
           1, LastOp(outcome))

FreshError_Unwrapped(outcome, at) ==
    Err(IF outcome = "Timeout waiting for iframe" THEN "waitForSelector failed" ELSE outcome,
        at, FALSE)

\* the error extractContent throws when the extraction ends as outcome: the
\* rejection of the failing operation, or the new Error built for it
FreshError(outcome, at) == Err(outcome, at, FALSE)

Extracted_Always(outcome) == TRUE

\* "await saveToCache(url, result)" is reached when no step before it threw
Extracted(outcome) == outcome = "ok"

\* the object built from the frame's content
FreshResult(url, title) ==
    Obj(PageKeys, title, InnerHTML(url), HasMalformedHTML(InnerHTML(url)))

\* the record kept of one extractContent call: file is the cache file as it
\* lay on disk when the call began, fault is how the browser answered ("ok"
\* when nothing went wrong, "none" when it was not asked), before and after
\* delimit the operations the call issued in browserLog, fsBefore and fsAfter
\* the file operations it issued in fsLog, write is how its fs.writeFile ended
Call(link, lookup, ops, fault, outcome, result, e, saved, w) ==
    [url |-> link.url, title |-> link.text, file |-> cache[getCacheKey(link.url)], fault |-> fault,
     cached |-> lookup.value, lookupThrew |-> lookup.thrown, reads |-> lookup.reads,
     before |-> Len(browserLog), after |-> Len(browserLog) + Len(ops),
     fsBefore |-> Len(fsLog), fsAfter |-> Len(fsLog) + lookup.reads + saved.writes,
     outcome |-> outcome, result |-> result, error |-> e,
     write |-> IF saved.writes = 0 THEN "none" ELSE w]

NoSave == [cache |-> cache, thrown |-> FALSE, writes |-> 0]

\* "link.section || 'Reference'"
SectionOrDefault(section) == IF section = "" THEN "Reference" ELSE section

DocRecord_CachedTitle(link, content) ==
    [title |-> content.title, content |-> content.content,
     defined |-> "content" \in content.keys,
     section |-> SectionOrDefault(link.section)]

\* the record pushed onto documentation; defined tells whether content.content
\* is a string or undefined
DocRecord(link, content) ==
    [title |-> link.text, content |-> content.content,
     defined |-> "content" \in content.keys,
     section |-> SectionOrDefault(link.section)]

LoopRunning_OnePage == pc = "extract" /\ idx <= Min(1, Len(pagesToProcess))

\* "for (const link of pagesToProcess)": a page is left to process
LoopRunning == pc = "extract" /\ idx <= Len(pagesToProcess)

\* the failures the run has survived so far
Faults == delays + Cardinality({k \in 1..Len(calls) : calls[k].write \in {"error", "partial"}})

\* extractContent returned content: the loop body pushes and goes on
PageDone(link, content) ==
    /\ documentation' = Append(documentation, DocRecord(link, content))
    /\ idx' = idx + 1
    /\ UNCHANGED <<pc, error>>

PageFailed_Skipped(e) ==
    /\ idx' = idx + 1
    /\ UNCHANGED <<pc, error, documentation>>

\* extractContent threw e: nothing in the loop catches it
PageFailed(e) ==
    /\ Throw(e)
    /\ UNCHANGED <<documentation, idx>>

\* extractContent answered from the cache
ExtractCached ==
    /\ LoopRunning
    /\ LET link == pagesToProcess[idx]
           lookup == getFromCache(link.url)
           typeError == Err("TypeError", idx, FALSE)
       IN  /\ ~lookup.thrown
           /\ CacheHit(lookup.value)
           /\ fsLog' = fsLog \o Fill(lookup.reads, "readFile cache")
           /\ IF HitLogThrows(lookup.value)
                 THEN /\ calls' = Append(calls, Call(link, lookup, <<>>, "none", "threw", JNull,
                                                     typeError, NoSave, "ok"))
                      /\ PageFailed(typeError)
                 ELSE /\ calls' = Append(calls, Call(link, lookup, <<>>, "none", "returned",
                                                     lookup.value, NoError, NoSave, "ok"))
                      /\ PageDone(link, lookup.value)
    /\ UNCHANGED <<envVars, cacheDir, cache, launched, browser, closed, attempts,
                   attemptLog, delays, links, pagesToProcess, html, browserLog,
                   outputFile>>

\* extractContent on a cache miss: navigate, extract, save.  A lookup that
\* threw would leave extractContent at once (it sits before the try).
ExtractFresh ==
    /\ LoopRunning
    /\ LET link == pagesToProcess[idx]
           lookup == getFromCache(link.url)
       IN  /\ lookup.thrown \/ ~CacheHit(lookup.value)
           /\ \E outcome \in FreshOutcomes, w \in WriteOutcomes :
                LET ops == IF lookup.thrown THEN <<>> ELSE FreshOps(link.url, outcome)
                    result == FreshResult(link.url, link.text)
                    saved == IF Extracted(outcome) /\ ~lookup.thrown
                                THEN saveToCache(link.url, result, w) ELSE NoSave
                    failure == IF lookup.thrown THEN Err("cache read failed", idx, FALSE)
                               ELSE IF outcome # "ok" THEN FreshError(outcome, idx)
                               ELSE IF saved.thrown THEN Err("cache write failed", idx, FALSE)
                               ELSE NoError
                IN  \* one transition per distinct behaviour
                    /\ (outcome # "ok" \/ ~config.USE_CACHE) => w = "ok"
                    /\ w # "ok" => Faults < MaxFaults
                    /\ browserLog' = browserLog \o ops
                    /\ cache' = saved.cache
                    /\ fsLog' = fsLog \o Fill(lookup.reads, "readFile cache")
                                      \o Fill(saved.writes, "writeFile cache")
                    /\ IF failure # NoError
                          THEN /\ calls' = Append(calls, Call(link, lookup, ops, outcome, "threw",
                                                              JNull, failure, saved, w))
                               /\ PageFailed(failure)
                          ELSE /\ calls' = Append(calls, Call(link, lookup, ops, outcome, "returned",
                                                              result, NoError, saved, w))
                               /\ PageDone(link, result)
    /\ UNCHANGED <<envVars, cacheDir, launched, browser, closed, attempts, attemptLog,
                   delays, links, pagesToProcess, html, outputFile>>

(***************************************************************************)
(* Document assembly                                                       *)
(***************************************************************************)
\* encodeURIComponent throws URIError on a lone surrogate
URIMalformed(t) == t = LoneSurrogate
encodeURIComponent(t) == IF t = "A B" THEN "A%20B" ELSE t

RECURSIVE Dedup(_)
Dedup(s) ==
    IF s = <<>> THEN <<>>
    ELSE LET front == Dedup(SubSeq(s, 1, Len(s) - 1))
             last == s[Len(s)]
         IN  IF \E i \in 1..Len(front) : front[i] = last THEN front ELSE Append(front, last)

RECURSIVE Filter(_, _)
Filter(s, sec) ==
    IF s = <<>> THEN <<>>
    ELSE (IF SectionOrDefault(s[1].section) = sec THEN <<s[1]>> ELSE <<>>)
           \o Filter(Tail(s), sec)

TocEntry_Unescaped(doc) == [href |-> doc.title, text |-> doc.title]

TocEntry(doc) == [href |-> encodeURIComponent(doc.title), text |-> doc.title]

\* the sections accumulator is a plain object.  A label that is an array
\* index ("2") is an integer key; a label naming a member of
\* Object.prototype ("constructor") finds that member in acc[section].
ArrayIndex(label) == CASE label = "2" -> 2 [] label = "10" -> 10 [] OTHER -> -1
IsArrayIndex(label) == ArrayIndex(label) >= 0
InheritedKeys == {"constructor"}

\* "if (!acc[section]) acc[section] = []; acc[section].push(doc)": the
\* inherited member is truthy and has no push, a TypeError
GroupingThrows(docs) ==
    \E k \in 1..Len(docs) : SectionOrDefault(docs[k].section) \in InheritedKeys

RECURSIVE Ascending(_)
Ascending(keys) ==
    IF keys = <<>> THEN <<>>
    ELSE LET least == CHOOSE i \in 1..Len(keys) :
                         \A j \in 1..Len(keys) : ArrayIndex(keys[i]) <= ArrayIndex(keys[j])
         IN  <<keys[least]>>
               \o Ascending(SubSeq(keys, 1, least - 1) \o SubSeq(keys, least + 1, Len(keys)))

IsIndexKey(label) == IsArrayIndex(label)
IsNameKey(label) == ~IsArrayIndex(label)

\* Object.entries: integer keys in ascending order, then the other keys in
\* the order they were created
ObjectEntries(keys) ==
    Ascending(SelectSeq(keys, IsIndexKey)) \o SelectSeq(keys, IsNameKey)

generateTableOfContents(docs) ==
    LET order == ObjectEntries(
                     Dedup([k \in 1..Len(docs) |-> SectionOrDefault(docs[k].section)]))
    IN  [k \in 1..Len(order) |->
           [section |-> order[k],
            entries |-> LET own == Filter(docs, order[k])
                        IN  [j \in 1..Len(own) |-> TocEntry(own[j])]]]

generateContent_Grouped(docs) ==
    LET first == IF docs = <<>> THEN "" ELSE SectionOrDefault(docs[1].section)
        grouped == SelectSeq(docs, LAMBDA d : SectionOrDefault(d.section) = first)
                     \o SelectSeq(docs, LAMBDA d : SectionOrDefault(d.section) # first)
    IN  [k \in 1..Len(grouped) |->
           [id |-> encodeURIComponent(grouped[k].title),
            body |-> IF grouped[k].defined THEN grouped[k].content ELSE <<"undefined">>]]

\* a doc whose content is undefined is rendered as the text "undefined"
generateContent(docs) ==
    [k \in 1..Len(docs) |->
       [id |-> encodeURIComponent(docs[k].title),
        body |-> IF docs[k].defined THEN docs[k].content ELSE <<"undefined">>]]

\* generateBody: the root elements #panel (holding the table of contents)
\* and #viewer (holding the page wrappers)
generateHTML(docs) ==
    [built |-> TRUE, roots |-> <<"panel", "viewer">>,
     toc |-> generateTableOfContents(docs), content |-> generateContent(docs)]

GenerateThrows(docs) ==
    GroupingThrows(docs) \/ \E k \in 1..Len(docs) : URIMalformed(docs[k].title)

\* the grouping runs before any title is escaped
GenerateError(docs) == IF GroupingThrows(docs) THEN "TypeError" ELSE "URIError"

StatsThrow_OnNoPage(docs) ==
    build = "debug" /\ (docs = <<>> \/ \E k \in 1..Len(docs) : ~docs[k].defined)

\* the assembly statistics of the debug copy call Buffer.byteLength(doc.content);
\* their average over no page at all is NaN, which throws nothing
StatsThrow(docs) == build = "debug" /\ \E k \in 1..Len(docs) : ~docs[k].defined

Assemble ==
    /\ pc = "extract"
    /\ ~LoopRunning
    /\ IF StatsThrow(documentation)
          THEN Throw(Err("TypeError", 0, FALSE)) /\ UNCHANGED html
          ELSE IF GenerateThrows(documentation)
          THEN Throw(Err(GenerateError(documentation), 0, FALSE)) /\ UNCHANGED html
          ELSE /\ html' = generateHTML(documentation)
               /\ pc' = "persist"
               /\ UNCHANGED error
    /\ UNCHANGED <<envVars, cacheDir, cache, launched, browser, closed, attempts,
                   attemptLog, delays, links, pagesToProcess, idx, calls, documentation,
                   browserLog, fsLog, outputFile>>

(***************************************************************************)
(* Persistence and teardown                                                *)
(***************************************************************************)
Persist ==
    /\ pc = "persist"
    /\ \E mkdirOk \in BOOLEAN, w \in WriteOutcomes :
         /\ ~mkdirOk => w = "ok"
         /\ IF ~mkdirOk
               THEN /\ fsLog' = Append(fsLog, "mkdir output failed")
                    /\ Throw(Err("mkdir failed", 0, FALSE))
                    /\ UNCHANGED outputFile
               ELSE /\ fsLog' = fsLog \o <<"mkdir output", "writeFile output">>
                    /\ outputFile' = CASE w = "ok" -> [written |-> TRUE, html |-> html]
                                       [] w = "partial" -> [written |-> TRUE, html |-> NoHtml]
                                       [] OTHER -> outputFile
                    /\ IF w = "ok"
                          THEN pc' = "finally" /\ UNCHANGED error
                          ELSE Throw(Err("writeFile failed", 0, FALSE))
    /\ UNCHANGED <<envVars, cacheDir, cache, launched, browser, closed, attempts,
                   attemptLog, delays, links, pagesToProcess, idx, calls, documentation,
                   html, browserLog>>

\* the catch rethrows; finally closes the browser the run holds
Finally ==
    /\ pc = "finally"
    /\ closed' = browser
    /\ pc' = IF error = NoError THEN "Done" ELSE "Failed"
    /\ UNCHANGED <<envVars, cacheDir, cache, error, launched, browser, attempts,
                   attemptLog, delays, links, pagesToProcess, idx, calls, documentation,
                   html, browserLog, fsLog, outputFile>>

Next ==
    \/ InitializeCache
    \/ ObtainPage
    \/ ExtractLinksAttempt
    \/ Delay
    \/ ExtractCached
    \/ ExtractFresh
    \/ Assemble
    \/ Persist
    \/ Finally

Spec == Init /\ [][Next]_vars

\* Runs over the small panels with an empty cache directory.  Every awaited
\* operation settles (navigation and waits time out, the retry timer fires),
\* so a run that can take a step eventually takes one.
InitSmall ==
    /\ Init
    /\ panel \in {<<>>, <<LinkA, LinkA>>}
    /\ cache = EmptyCache
    /\ cacheDir

FairSpec == InitSmall /\ [][Next]_vars /\ WF_vars(Next)

(***************************************************************************)
(* The scraper started again over the cache directory and output file the  *)
(* earlier runs left, with the same environment and the same panel; the    *)
(* cache format version and the --clear-cache flag may differ.             *)
(***************************************************************************)
\* what is kept of a run that ended: how it ended, its version tag and
\* clear flag, the urls it extracted afresh and saved, and its document
Finished ==
    [outcome |-> pc, version |-> config.CACHE_VERSION, cleared |-> CLEAR_CACHE,
     extracted |-> {calls[k].url : k \in {j \in 1..Len(calls) : calls[j].write = "ok"}},
     html |-> html]

\* "if (require.main === module) scrapeDocumentation()" in a new process
Rerun ==
    /\ pc \in {"Done", "Failed"}
    /\ Len(previous) + 1 < MaxRuns
    /\ previous' = Append(previous, Finished)
    /\ \E version \in Versions, clear \in BOOLEAN :
         /\ config' = [config EXCEPT !.CACHE_VERSION = version]
         /\ CLEAR_CACHE' = clear
    /\ pc' = "start"
    /\ error' = NoError
    /\ launched' = FALSE
    /\ browser' = FALSE
    /\ closed' = FALSE
    /\ attempts' = 0
    /\ attemptLog' = <<>>
    /\ delays' = 0
    /\ links' = <<>>
    /\ pagesToProcess' = <<>>
    /\ idx' = 1
    /\ calls' = <<>>
    /\ documentation' = <<>>
    /\ html' = NoHtml
    /\ browserLog' = <<>>
    /\ fsLog' = <<>>
    /\ UNCHANGED <<build, testPage, panel, cacheDir, cache, outputFile, input, output>>

InitRerun ==
    /\ Init
    /\ config = [DEV_MODE |-> FALSE, USE_CACHE |-> TRUE, CACHE_VERSION |-> CACHE_VERSION]
    /\ ~CLEAR_CACHE
    /\ build = "scraper"
    /\ testPage
    /\ panel \in {<<LinkA, LinkA>>, <<LinkB, LinkA>>}
    /\ cache = EmptyCache
    /\ cacheDir

NextRerun ==
    \/ InitializeCache
    \/ ObtainPage
    \/ ExtractLinksAttempt
    \/ Delay
    \/ ExtractCached
    \/ ExtractFresh
    \/ Assemble
    \/ Persist
    \/ Finally
    \/ Rerun

RerunSpec == InitRerun /\ [][NextRerun]_vars

(***************************************************************************)
(* The exported functions called on their own, as the tests call them      *)
(***************************************************************************)
(***************************************************************************)
(* The document of a documentation page's iframe.  A DOM is the sequence   *)
(* of its nodes in document order, each with the path of child positions   *)
(* leading to it.  Strings the code takes apart or puts together (class    *)
(* names, URLs, markup) are sequences of fragments: a class attribute is a *)
(* sequence of class tokens, the token language-objective-c is             *)
(* <<"language-", "objective", "-", "c">>, and the URL /images/a.png is    *)
(* <<"/", "images/a.png">>.                                                *)
(***************************************************************************)
El(path, tag, cls, ref) ==
    [path |-> path, tag |-> tag, cls |-> cls, ref |-> ref, style |-> "", text |-> <<>>]
Text(path, text) ==
    [path |-> path, tag |-> "#text", cls |-> <<>>, ref |-> <<>>, style |-> "", text |-> text]

NoClass == <<>>
LanguagePython == << <<"language-", "python">> >>
LanguageObjectiveC == << <<"language-", "objective", "-", "c">> >>

NoRef == <<>>
RootRelative == <<"/", "images/a.png">>
OnBase == <<BASE_URL, "/", "docs/test">>
Elsewhere == <<"https://other.org", "/", "x.png">>
Origins == {BASE_URL, "https://other.org"}

\* the elements a page's body is made of, each with its subtree
Snippets ==
    { <<El(<<>>, "pre", NoClass, NoRef), El(<<1>>, "code", c, NoRef), Text(<<1, 1>>, <<"x">>)>> :
          c \in {NoClass, LanguagePython, LanguageObjectiveC} }
      \cup
    { <<El(<<>>, "pre", NoClass, NoRef), Text(<<1>>, <<"x">>)>>,
      <<El(<<>>, "pre", NoClass, NoRef), El(<<1>>, "span", NoClass, NoRef),
        El(<<1, 1>>, "code", LanguagePython, NoRef), Text(<<1, 1, 1>>, <<"x">>)>>,
      <<El(<<>>, "p", NoClass, NoRef), El(<<1>>, "code", LanguagePython, NoRef),
        Text(<<1, 1>>, <<"x">>)>>,
      <<El(<<>>, "p", NoClass, NoRef), El(<<1>>, "div", NoClass, NoRef),
        Text(<<1, 1>>, <<"b">>)>>,
      <<El(<<>>, "div", NoClass, NoRef), Text(<<1>>, <<"a">>)>>,
      <<El(<<>>, "div", NoClass, NoRef), Text(<<1>>, <<"<p>", "</div>">>)>> }
      \cup
    { <<El(<<>>, "script", NoClass, NoRef), Text(<<1>>, t)>> :
          t \in {<<"js">>, <<"<p>", "</div>">>, <<"<div>", "</p>">>} }
      \cup
    { <<El(<<>>, "img", NoClass, r)>> : r \in {RootRelative, Elsewhere} }
      \cup
    { <<El(<<>>, "a", NoClass, r), Text(<<1>>, <<"Link">>)>> : r \in {RootRelative, OnBase} }

\* the snippet as the k-th child of the body
Place(snippet, k) == [i \in 1..Len(snippet) |-> [snippet[i] EXCEPT !.path = <<k>> \o @]]

RECURSIVE Body(_)
Body(snippets) ==
    IF snippets = <<>> THEN <<>>
    ELSE Body(SubSeq(snippets, 1, Len(snippets) - 1))
           \o Place(snippets[Len(snippets)], Len(snippets))

\* manual: the body is the element .manual-content; otherwise it has none.
\* handle: what page.$ and frameHandle.contentFrame() answer for the iframe.
Frames ==
    { [handle |-> "ok", manual |-> m, dom |-> Body(b)] :
          m \in BOOLEAN, b \in UNION {[1..n -> Snippets] : n \in 0..MaxElements} }
      \cup
    { [handle |-> h, manual |-> TRUE, dom |-> <<>>] : h \in {"$ null", "contentFrame null"} }

IsInside(dom, j, i) ==
    /\ Len(dom[i].path) < Len(dom[j].path)
    /\ SubSeq(dom[j].path, 1, Len(dom[i].path)) = dom[i].path

\* el.parentElement.tagName; the parent of a top-level node is the content
\* element itself, a div
ParentTag(dom, i) ==
    IF Len(dom[i].path) = 1 THEN "div"
    ELSE LET parent == CHOOSE j \in 1..Len(dom) :
                           dom[j].path = SubSeq(dom[i].path, 1, Len(dom[i].path) - 1)
         IN  dom[parent].tag

\* el.querySelector(tag): index of the first descendant with that tag, or 0
QuerySelector(dom, i, tag) ==
    LET found == {j \in 1..Len(dom) : IsInside(dom, j, i) /\ dom[j].tag = tag}
    IN  IF found = {} THEN 0 ELSE CHOOSE j \in found : \A k \in found : j <= k

\* findContent: .manual-content, or a new div holding clones of the body's
\* children other than script, link, style and #button (no page here has
\* one), or null (found FALSE)
FallbackExcluded == {"script", "link", "style"}

findContent_EmptyDiv(frame) ==
    IF frame.manual THEN [found |-> TRUE, dom |-> frame.dom]
    ELSE [found |-> TRUE,
          dom |-> SelectSeq(frame.dom,
                            LAMBDA n : \E i \in 1..Len(frame.dom) :
                                          /\ Len(frame.dom[i].path) = 1
                                          /\ frame.dom[i].tag \notin FallbackExcluded
                                          /\ n.path[1] = frame.dom[i].path[1])]

findContent(frame) ==
    IF frame.manual THEN [found |-> TRUE, dom |-> frame.dom]
    ELSE LET top == {i \in 1..Len(frame.dom) :
                        /\ Len(frame.dom[i].path) = 1
                        /\ frame.dom[i].tag \notin FallbackExcluded}
             kept(n) == \E i \in top : n.path[1] = frame.dom[i].path[1]
         IN  [found |-> top # {}, dom |-> SelectSeq(frame.dom, kept)]

\* /language-(\w+)/ on a class name: the word after the first "language-"
NonWord == {"-", "+", "#", "."}
TokenLanguage(token) ==
    LET hits == {q \in 1..(Len(token) - 1) :
                    token[q] = "language-" /\ token[q + 1] \notin NonWord}
    IN  IF hits = {} THEN "" ELSE token[(CHOOSE q \in hits : \A r \in hits : q <= r) + 1]
LanguageMatch(cls) ==
    LET hits == {t \in 1..Len(cls) : TokenLanguage(cls[t]) # ""}
    IN  IF hits = {} THEN "" ELSE TokenLanguage(cls[CHOOSE t \in hits : \A r \in hits : t <= r])

\* `prettyprint lang-${language}`
PrettyPrint(language) == << <<"prettyprint">>, <<"lang-", language>> >>
Inline == << <<"inline">> >>
WhiteSpacePre == "white-space: pre;"

\* the body of the forEach of processCodeBlocks for the i-th node
CodeStep(dom, i) ==
    IF dom[i].tag = "pre"
       THEN LET inner == QuerySelector(dom, i, "code")
                code == IF inner = 0 THEN i ELSE inner
                match == LanguageMatch(dom[code].cls)
                language == IF match = "" THEN "javascript" ELSE match
            IN  [dom EXCEPT ![code].cls = PrettyPrint(language),
                            ![code].style = WhiteSpacePre]
    ELSE IF dom[i].tag = "code" /\ ParentTag(dom, i) # "pre"
       THEN [dom EXCEPT ![i].cls = Inline, ![i].style = WhiteSpacePre]
    ELSE dom

\* querySelectorAll lists the nodes in document order; forEach visits them
\* one after the other, each seeing what the earlier visits changed
RECURSIVE CodeStepsFrom(_, _)
CodeStepsFrom(dom, i) ==
    IF i > Len(dom) THEN dom ELSE CodeStepsFrom(CodeStep(dom, i), i + 1)

processCodeBlocks(dom) == CodeStepsFrom(dom, 1)

\* the documents are served from the base origin, under /docs/
FrameOrigin == BASE_URL
FrameDir == "docs/"

\* el.src and el.href read the attribute resolved against the document's
\* URL ("" when the attribute is missing)
Resolve(ref) ==
    IF ref = <<>> THEN <<>>
    ELSE IF ref[1] \in Origins THEN ref
    ELSE IF ref[1] = "/" THEN <<FrameOrigin>> \o ref
    ELSE <<FrameOrigin, "/", FrameDir>> \o ref

StartsWithSlash(url) == url # <<>> /\ url[1] = "/"

\* the body of the forEach of fixRelativePaths for the i-th node
PathStep(dom, i) ==
    IF dom[i].tag \in {"img", "a"} /\ StartsWithSlash(Resolve(dom[i].ref))
       THEN [dom EXCEPT ![i].ref = <<BASE_URL>> \o Resolve(dom[i].ref)]
       ELSE dom

RECURSIVE PathStepsFrom(_, _)
PathStepsFrom(dom, i) ==
    IF i > Len(dom) THEN dom ELSE PathStepsFrom(PathStep(dom, i), i + 1)

fixRelativePaths(dom) == PathStepsFrom(dom, 1)

\* content.innerHTML: a start tag without attributes is one fragment, text
\* is escaped except inside an element whose content is raw text
RawTextTags == {"script", "style"}
Escaped(fragment) ==
    CASE fragment = "<p>" -> "&lt;p&gt;"
      [] fragment = "</p>" -> "&lt;/p&gt;"
      [] fragment = "<div>" -> "&lt;div&gt;"
      [] fragment = "</div>" -> "&lt;/div&gt;"
      [] OTHER -> fragment
OpenTag(tag) ==
    CASE tag = "p" -> "<p>" [] tag = "div" -> "<div>" [] tag = "pre" -> "<pre>"
      [] tag = "code" -> "<code>" [] tag = "span" -> "<span>" [] tag = "script" -> "<script>"
      [] tag = "a" -> "<a>" [] OTHER -> "<img>"
CloseTag(tag) ==
    CASE tag = "p" -> "</p>" [] tag = "div" -> "</div>" [] tag = "pre" -> "</pre>"
      [] tag = "code" -> "</code>" [] tag = "span" -> "</span>"
      [] tag = "script" -> "</script>" [] OTHER -> "</a>"

RECURSIVE Joined(_)
Joined(cls) ==
    IF cls = <<>> THEN <<>>
    ELSE IF Len(cls) = 1 THEN cls[1]
    ELSE cls[1] \o <<" ">> \o Joined(Tail(cls))

StartTag(el) ==
    IF el.cls = <<>> /\ el.ref = <<>> /\ el.style = "" THEN <<OpenTag(el.tag)>>
    ELSE <<"<", el.tag>>
           \o (IF el.cls = <<>> THEN <<>> ELSE <<" class=\"">> \o Joined(el.cls) \o <<"\"">>)
           \o (IF el.ref = <<>> THEN <<>>
               ELSE <<IF el.tag = "img" THEN " src=\"" ELSE " href=\"">> \o el.ref \o <<"\"">>)
           \o (IF el.style = "" THEN <<>> ELSE <<" style=\"", el.style, "\"">>)
           \o <<">">>

Children(dom, path) ==
    SelectSeq([j \in 1..Len(dom) |-> j],
              LAMBDA j : /\ Len(dom[j].path) = Len(path) + 1
                         /\ SubSeq(dom[j].path, 1, Len(path)) = path)

RECURSIVE SerializeAll(_, _)
SerializeAll(dom, nodes) ==
    IF nodes = <<>> THEN <<>>
    ELSE LET el == dom[nodes[1]]
             one == IF el.tag = "#text"
                       THEN IF ParentTag(dom, nodes[1]) \in RawTextTags THEN el.text
                            ELSE [k \in 1..Len(el.text) |-> Escaped(el.text[k])]
                    ELSE IF el.tag = "img" THEN StartTag(el)
                    ELSE StartTag(el) \o SerializeAll(dom, Children(dom, el.path))
                           \o <<CloseTag(el.tag)>>
         IN  one \o SerializeAll(dom, Tail(nodes))

innerHTML(dom) == SerializeAll(dom, Children(dom, <<>>))

\* the function evaluated in the frame; ran lists the steps it took
extractFrameContent(frame) ==
    LET content == findContent(frame)
        processed == fixRelativePaths(processCodeBlocks(content.dom))
    IN  IF ~content.found
           THEN [error |-> "No content found", html |-> <<>>, hasMalformedHTML |-> FALSE,
                 dom |-> <<>>, ran |-> <<"findContent">>]
           ELSE [error |-> "", html |-> innerHTML(processed),
                 hasMalformedHTML |-> HasMalformedHTML(innerHTML(processed)),
                 dom |-> processed,
                 ran |-> <<"findContent", "processCodeBlocks", "fixRelativePaths",
                           "malformedPatterns">>]

\* how extractContent ends on a page whose iframe holds frame
FrameOutcome(frame) ==
    CASE frame.handle = "$ null" -> "No iframe found"
      [] frame.handle = "contentFrame null" -> "Failed to get iframe content"
      [] extractFrameContent(frame).error # "" -> extractFrameContent(frame).error
      [] OTHER -> "ok"

\* documentation arrays: two titles (one that escaping changes), section
\* labels that repeat, a missing one, an integer one and an inherited one
Titles == {"Scene", "A B"}
SectionLabels == {"A", "B", "", "2", "constructor"}
Doc(title, section) ==
    [title |-> title, content |-> <<"<p>", title, "</p>">>, defined |-> TRUE,
     section |-> section]
Docs == {Doc(t, sec) : t \in Titles, sec \in SectionLabels}
DocSeqs == UNION {[1..n -> Docs] : n \in 0..MaxDocs}

\* no run of scrapeDocumentation is under way
Idle ==
    /\ config = [DEV_MODE |-> FALSE, USE_CACHE |-> TRUE, CACHE_VERSION |-> CACHE_VERSION]
    /\ CLEAR_CACHE = FALSE
    /\ build = "scraper"
    /\ testPage = FALSE
    /\ panel = <<>>
    /\ cacheDir = FALSE
    /\ cache = EmptyCache
    /\ pc = "idle"
    /\ error = NoError
    /\ launched = FALSE
    /\ browser = FALSE
    /\ closed = FALSE
    /\ attempts = 0
    /\ attemptLog = <<>>
    /\ delays = 0
    /\ links = <<>>
    /\ pagesToProcess = <<>>
    /\ idx = 1
    /\ calls = <<>>
    /\ documentation = <<>>
    /\ html = NoHtml
    /\ browserLog = <<>>
    /\ fsLog = <<>>
    /\ outputFile = NoFile
    /\ previous = <<>>

pipelineVars == <<config, CLEAR_CACHE, build, testPage, panel, cacheDir, cache, pc,
                  error, launched, browser, closed, attempts, attemptLog, delays, links,
                  pagesToProcess, idx, calls, documentation, html, browserLog, fsLog,
                  outputFile, previous>>

InitPure ==
    /\ Idle
    /\ input \in {[NoInput EXCEPT !.kind = "docs", !.docs = d] : d \in DocSeqs}
                 \cup {[NoInput EXCEPT !.kind = "frame", !.frame = f] : f \in Frames}
    /\ output = NoOutput

\* generateHTML(documentation)
CallGenerateHTML ==
    /\ input.kind = "docs"
    /\ output = NoOutput
    /\ output' = IF GenerateThrows(input.docs)
                    THEN [NoOutput EXCEPT !.kind = "threw",
                                          !.error = GenerateError(input.docs)]
                    ELSE [NoOutput EXCEPT !.kind = "html",
                                          !.html = generateHTML(input.docs)]
    /\ UNCHANGED <<pipelineVars, input>>

\* extractContent(page, UrlA, "Scene") on a cache miss, with a page whose
\* iframe holds the document input.frame and answers every operation
CallExtractContent ==
    /\ input.kind = "frame"
    /\ output = NoOutput
    /\ LET lookup == getFromCache(UrlA)
           outcome == FrameOutcome(input.frame)
           evaluated == LastOp(outcome) = 6
           content == extractFrameContent(input.frame)
           result == Obj(PageKeys, "Scene", content.html, content.hasMalformedHTML)
           saved == IF Extracted(outcome) THEN saveToCache(UrlA, result, "ok") ELSE NoSave
       IN  /\ ~CacheHit(lookup.value)
           /\ browserLog' = browserLog \o FreshOps(UrlA, outcome)
           /\ fsLog' = fsLog \o Fill(lookup.reads, "readFile cache")
                             \o Fill(saved.writes, "writeFile cache")
           /\ cache' = saved.cache
           /\ output' = IF outcome # "ok"
                           THEN [NoOutput EXCEPT !.kind = "threw",
                                                 !.error = FreshError(outcome, 0).name,
                                                 !.ran = IF evaluated THEN content.ran
                                                         ELSE <<>>]
                           ELSE [NoOutput EXCEPT !.kind = "returned",
                                                 !.result = result,
                                                 !.dom = content.dom,
                                                 !.ran = content.ran]
    /\ UNCHANGED <<config, CLEAR_CACHE, build, testPage, panel, cacheDir, pc, error,
                   launched, browser, closed, attempts, attemptLog, delays, links,
                   pagesToProcess, idx, calls, documentation, html, outputFile, input,
                   previous>>

NextPure ==
    \/ CallGenerateHTML
    \/ CallExtractContent

PureSpec == InitPure /\ [][NextPure]_vars

(***************************************************************************)
(* Properties                                                              *)
(***************************************************************************)
Ended == pc \in {"Done", "Failed"}
Unwinding == pc \in {"finally", "Failed"} /\ error # NoError

\* the operations a call issued on the browser session
CallOps(c) == SubSeq(browserLog, c.before + 1, c.after)

Count(log, x) == Cardinality({k \in 1..Len(log) : log[k] = x})
OutputWrites == Count(fsLog, "writeFile output")

\* C1: whenever extractContent's cache lookup returns a stored value the call
\* issues no goto, waitForSelector, $ or evaluate on the browser session, and
\* when that value is a stored page the call returns exactly that page.
C1_CacheHitIsFree ==
    \A k \in 1..Len(calls) :
        Truthy(calls[k].cached) =>
            /\ CallOps(calls[k]) = <<>>
            /\ calls[k].write = "none"
            /\ calls[k].cached.keys = PageKeys =>
                  calls[k].outcome = "returned" /\ calls[k].result = calls[k].cached

C1_Witness ==
    \E k \in 1..Len(calls) :
        /\ calls[k].cached.keys = PageKeys
        /\ calls[k].outcome = "returned"
        /\ calls[k].result.title = "Cached Page"
        /\ browserLog # <<>>

\* C2: the output file is written at most once, and only after discovery
\* succeeded, every selected page was extracted and the document was
\* assembled; while no document has been assembled, and in every run that
\* fails before or during assembly, no output file has been written.
C2_OutputWrittenOnceAtEnd ==
    /\ OutputWrites <= 1
    /\ (OutputWrites = 1 \/ outputFile.written) =>
          /\ attemptLog # <<>> /\ attemptLog[Len(attemptLog)].outcome = "ok"
          /\ Len(calls) = Len(pagesToProcess)
          /\ \A k \in 1..Len(calls) : calls[k].outcome = "returned"
          /\ Len(documentation) = Len(pagesToProcess)
          /\ html.built
          /\ pc \in {"finally", "Done", "Failed"}
    /\ ~html.built => OutputWrites = 0 /\ outputFile = NoFile

C2_Witness ==
    /\ pc = "Done"
    /\ OutputWrites = 1
    /\ outputFile.written
    /\ Len(documentation) = 2

\* C3: when the extraction of the i-th selected page fails, the run fails with
\* that very error at once: that call is the last one made, nothing is read
\* from the cache or issued on the browser after it, and no document is
\* assembled or written.
C3_PageFailureIsFatal ==
    \A k \in 1..Len(calls) :
        calls[k].outcome = "threw" =>
            /\ k = Len(calls)
            /\ Unwinding
            /\ error = calls[k].error
            /\ error.at = k
            /\ Len(browserLog) = calls[k].after
            /\ Count(fsLog, "readFile cache") <= k
            /\ Len(documentation) = k - 1
            /\ ~html.built
            /\ OutputWrites = 0 /\ outputFile = NoFile

C3_Witness ==
    /\ pc = "Failed"
    /\ Len(calls) = 1
    /\ Len(pagesToProcess) = 2
    /\ calls[1].outcome = "threw"
    /\ calls[1].error.name = "No content found"

\* C4: with the ceiling of DEV_MODE exactly the first min(DEV_PAGE_LIMIT, L) of
\* the L discovered links are selected and extracted in discovery order, no
\* link behind them is ever looked up or navigated to, and a run that
\* completes has extracted all of them and written exactly one output file;
\* without the ceiling all L links are selected.
C4_Selected ==
    IF config.DEV_MODE THEN Min(DEV_PAGE_LIMIT, Len(links)) ELSE Len(links)

C5_RateLimited(a) == a.outcome = "failed" /\ a.error.has429

C5_RateLimitNotRetried ==
    \A k \in 1..Len(attemptLog) :
        C5_RateLimited(attemptLog[k]) =>
            /\ k = Len(attemptLog)
            /\ attempts = k - 1
            /\ delays = k - 1
            /\ Unwinding
            /\ error = RateLimitError
            /\ error # attemptLog[k].error
            /\ Count(browserLog, Op("goto", DOCS_URL)) = k
            /\ calls = <<>>

C5_Witness ==
    /\ pc = "Failed"
    /\ Len(attemptLog) = 2
    /\ attemptLog[1].outcome = "failed"
    /\ C5_RateLimited(attemptLog[2])
    /\ attemptLog[2].error.name = "evaluate"

\* C6: extractLinks makes at most maxRetries = 2 attempts and always ends.  A
\* failure of attempt 1 without "429" is followed by exactly one delay and
\* then attempt 2; such a failure of attempt 2 ends discovery with the error
\* of attempt 2, not of attempt 1, and no further delay; a successful attempt
\* returns its links and is the last attempt.
InDiscovery == pc \in {"discover", "delay"}

C6_Failed(a) == a.outcome = "failed" /\ ~a.error.has429

C6_Attempts ==
    /\ Len(attemptLog) <= 2
    /\ attempts <= 2
    /\ delays <= 1
    /\ Count(browserLog, Op("goto", DOCS_URL)) = Len(attemptLog)
    /\ \A k \in 1..Len(attemptLog) :
          /\ (k = 1 /\ C6_Failed(attemptLog[k])) =>
                \/ Len(attemptLog) = 1 /\ delays = 0 /\ pc = "delay"
                \/ Len(attemptLog) = 1 /\ delays = 1 /\ pc = "discover"
                \/ Len(attemptLog) = 2 /\ delays = 1
          /\ (k = 2 /\ C6_Failed(attemptLog[k])) =>
                /\ Unwinding
                /\ error = attemptLog[2].error
                /\ error # attemptLog[1].error
                /\ delays = 1
          /\ attemptLog[k].outcome = "ok" =>
                /\ k = Len(attemptLog)
                /\ ~InDiscovery
                /\ delays = k - 1
                /\ links = panel

C6_TwoAttemptsThenStop == []C6_Attempts /\ [](InDiscovery => <>(~InDiscovery))

C6_Witness ==
    /\ pc = "Failed"
    /\ Len(attemptLog) = 2
    /\ C6_Failed(attemptLog[1]) /\ attemptLog[1].error.name = "goto"
    /\ C6_Failed(attemptLog[2]) /\ attemptLog[2].error.name = "waitForSelector"
    /\ error = attemptLog[2].error
    /\ delays = 1

\* C7: a browser the run launched itself is closed by the time the run has
\* returned or failed, whichever later step failed; a page supplied by the
\* caller is never closed and no browser is launched for it.
C7_BrowserClosedOnExit ==
    /\ (Ended /\ launched) => closed
    /\ testPage => ~launched /\ ~closed

\* C8 as stated: with the cache-clear directive the run removes the cache
\* directory and terminates successfully, with no browser, no browser
\* operation and no output file.
C8_ClearCacheSucceeds ==
    (CLEAR_CACHE /\ pc # "start") =>
        /\ pc = "Done"
        /\ cache = EmptyCache
        /\ ~launched
        /\ browserLog = <<>>
        /\ OutputWrites = 0 /\ outputFile = NoFile

\* C8 as amended: with the cache-clear directive the run asks once for the
\* removal of the cache directory (a failed removal is ignored; after a
\* successful one no cache entry remains), re-creates the directory and ends
\* there, successfully unless re-creating the directory fails, with no
\* browser launched, no operation on any page and no output file.
C8_ClearCacheExitsEarly ==
    (CLEAR_CACHE /\ pc # "start") =>
        /\ Ended
        /\ Len(fsLog) = 2
        /\ fsLog[1] \in {"rm", "rm failed"}
        /\ fsLog[1] = "rm" => cache = EmptyCache
        /\ pc = "Done" <=> fsLog[2] = "mkdir cache"
        /\ pc = "Done" => cacheDir /\ error = NoError
        /\ ~launched /\ ~browser
        /\ browserLog = <<>> /\ calls = <<>> /\ attemptLog = <<>>
        /\ OutputWrites = 0 /\ outputFile = NoFile

C8_Witness ==
    /\ CLEAR_CACHE
    /\ testPage
    /\ pc = "Done"
    /\ fsLog = <<"rm", "mkdir cache">>

\* C9: getFromCache never fails.  With caching disabled it returns null
\* without reading a file; for a missing, unreadable or unparseable cache
\* file it returns null, and extractContent then navigates to the url and
\* extracts the page afresh.
C9_UnusableFile(c) == c.file.kind \in {"missing", "unreadable", "garbage"}

C9_LookupNeverFails ==
    \A k \in 1..Len(calls) :
        /\ ~calls[k].lookupThrew
        /\ calls[k].error.name # "cache read failed"
        /\ ~config.USE_CACHE => calls[k].reads = 0 /\ calls[k].cached = JNull
        /\ (config.USE_CACHE /\ C9_UnusableFile(calls[k])) =>
              /\ calls[k].reads = 1
              /\ calls[k].cached = JNull
              /\ calls[k].after > calls[k].before
              /\ browserLog[calls[k].before + 1] = Op("goto", calls[k].url)
              /\ calls[k].outcome = "returned" =>
                    /\ CallOps(calls[k])[Len(CallOps(calls[k]))].op = "frame.evaluate"
                    /\ calls[k].result.title = calls[k].title
                    /\ calls[k].result.content = InnerHTML(calls[k].url)

C9_Witness ==
    \E k \in 1..Len(calls) :
        /\ config.USE_CACHE
        /\ calls[k].file.kind = "garbage"
        /\ calls[k].outcome = "returned"
        /\ calls[k].after = calls[k].before + 6

\* C10: a failed cache write never aborts the pipeline: the extractContent
\* call whose saveToCache failed still returns the freshly extracted page
\* (title, content, hasMalformedHTML), and the loop goes on to the next page.
C10_WriteFailed(c) == c.write \in {"error", "partial"}

C10_WriteFailureSwallowed ==
    \A k \in 1..Len(calls) :
        C10_WriteFailed(calls[k]) =>
            /\ calls[k].outcome = "returned"
            /\ calls[k].error = NoError
            /\ calls[k].result.keys = PageKeys
            /\ calls[k].result.title = calls[k].title
            /\ calls[k].result.content = InnerHTML(calls[k].url)
            /\ calls[k].result.hasMalformedHTML = HasMalformedHTML(InnerHTML(calls[k].url))
            /\ Len(documentation) >= k
            /\ documentation[k].content = calls[k].result.content
            /\ idx > k
            /\ error.name # "cache write failed"
            /\ (Len(calls) = k /\ k < Len(pagesToProcess)) => pc = "extract" /\ error = NoError

C10_Witness ==
    /\ Len(calls) = 2
    /\ calls[1].write = "error"
    /\ calls[2].outcome = "returned"
    /\ pc = "Done"

\* C11: with caching disabled no cache file is ever read or written, each
\* extractContent call gets null from the lookup, saves nothing and begins by
\* navigating to its url, also when that url was extracted earlier in the run.
C11_NoCacheTraffic ==
    ~config.USE_CACHE =>
        /\ Count(fsLog, "readFile cache") = 0
        /\ Count(fsLog, "writeFile cache") = 0
        /\ \A k \in 1..Len(calls) :
              /\ calls[k].reads = 0
              /\ calls[k].cached = JNull
              /\ calls[k].write = "none"
              /\ calls[k].after > calls[k].before
              /\ browserLog[calls[k].before + 1] = Op("goto", calls[k].url)

C11_Witness ==
    /\ ~config.USE_CACHE
    /\ Len(calls) = 2
    /\ calls[1].url = calls[2].url
    /\ calls[1].file.kind = "json" /\ calls[1].file.value.keys = PageKeys
    /\ calls[1].outcome = "returned"
    /\ calls[2].outcome = "returned"
    /\ Count(browserLog, Op("goto", calls[2].url)) = 2

\* C12: link discovery is run once: at most one attempt succeeds and it is
\* the last one.  When discovery fails for good (a rate limit, or the last
\* allowed attempt failing) the run fails with the error discovery threw, no
\* page is looked up in the cache or extracted, and no output file is written.
C12_Fatal(k) ==
    /\ attemptLog[k].outcome = "failed"
    /\ attemptLog[k].error.has429 \/ k = maxRetries

C12_DiscoveryFailureIsFatal ==
    /\ \A k \in 1..Len(attemptLog) : attemptLog[k].outcome = "ok" => k = Len(attemptLog)
    /\ Len(attemptLog) <= maxRetries
    /\ (attemptLog # <<>> /\ attemptLog[Len(attemptLog)].outcome = "ok") =>
          links = panel /\ ~InDiscovery
    /\ \A k \in 1..Len(attemptLog) :
          C12_Fatal(k) =>
              /\ k = Len(attemptLog)
              /\ Unwinding
              /\ error = IF attemptLog[k].error.has429 THEN RateLimitError
                         ELSE attemptLog[k].error
              /\ calls = <<>>
              /\ documentation = <<>>
              /\ Count(fsLog, "readFile cache") = 0
              /\ \A i \in 1..Len(browserLog) :
                    browserLog[i].arg \in {DOCS_URL, "#panel", "docLinks"}
              /\ ~html.built
              /\ OutputWrites = 0 /\ outputFile = NoFile

C12_Witness ==
    /\ pc = "Failed"
    /\ Len(attemptLog) = maxRetries
    /\ C12_Fatal(maxRetries)
    /\ panel # <<>>
    /\ config.USE_CACHE
    /\ error = attemptLog[maxRetries].error

\* C16: a run whose discovery returns no link extracts nothing and assembles
\* generateHTML of the empty sequence without failing: the document has the
\* root elements panel and viewer, no section heading and no page wrapper.
\* Only writing the output can still fail such a run, and a run that ends
\* Done has written exactly that document.
C16_NoLinks ==
    /\ attemptLog # <<>>
    /\ attemptLog[Len(attemptLog)].outcome = "ok"
    /\ panel = <<>>

C16_EmptyDocument ==
    (C16_NoLinks /\ pc \in {"persist", "finally", "Done", "Failed"}) =>
        /\ calls = <<>>
        /\ documentation = <<>>
        /\ html.built
        /\ html.roots = <<"panel", "viewer">>
        /\ html.toc = <<>>
        /\ html.content = <<>>
        /\ error = NoError \/ error.name \in {"mkdir failed", "writeFile failed"}
        /\ pc = "Done" => outputFile = [written |-> TRUE, html |-> html]

C16_Witness ==
    /\ C16_NoLinks
    /\ build = "debug"
    /\ pc = "Done"
    /\ outputFile.written
    /\ outputFile.html.roots = <<"panel", "viewer">>
    /\ outputFile.html.toc = <<>>

\* C20: when the wait for the iframe fails on a cache miss, extractContent
\* fails with 'Timeout waiting for iframe' having issued only the navigation
\* and that wait: no handle lookup ($), no contentFrame, no body wait and no
\* in-frame evaluation is made for the call, and nothing is saved.
C20_IframeTimeout ==
    \A k \in 1..Len(calls) :
        calls[k].fault = "Timeout waiting for iframe" =>
            /\ ~Truthy(calls[k].cached)
            /\ calls[k].outcome = "threw"
            /\ calls[k].error.name = "Timeout waiting for iframe"
            /\ CallOps(calls[k]) = <<Op("goto", calls[k].url), Op("waitForSelector", "iframe")>>
            /\ \A i \in (calls[k].before + 1)..Len(browserLog) :
                  browserLog[i].op \notin {"$", "contentFrame", "frame.waitForSelector",
                                           "frame.evaluate"}
            /\ calls[k].write = "none"

C20_Witness ==
    /\ pc = "Failed"
    /\ Len(calls) = 2
    /\ calls[1].outcome = "returned"
    /\ calls[2].fault = "Timeout waiting for iframe"
    /\ calls[2].file.kind = "missing"
    /\ error.name = "Timeout waiting for iframe"

\* C13: generateTableOfContents renders the sections in the order of their
\* first occurrence in the documentation array, whatever the labels, and
\* within each section its records in their original relative order.
C13_Labels(docs) == [k \in 1..Len(docs) |-> SectionOrDefault(docs[k].section)]

C13_FirstSeen(labels, k) == \A j \in 1..(k - 1) : labels[j] # labels[k]

C13_FirstSeenOrder ==
    output.kind = "html" =>
        LET labels == C13_Labels(input.docs)
            toc == output.html.toc
        IN  /\ \A a, b \in 1..Len(labels) :
                  (a < b /\ C13_FirstSeen(labels, a) /\ C13_FirstSeen(labels, b)) =>
                      \E i, j \in 1..Len(toc) :
                          i < j /\ toc[i].section = labels[a] /\ toc[j].section = labels[b]
            /\ \A i \in 1..Len(toc) :
                  toc[i].entries =
                      LET own == SelectSeq(input.docs,
                                           LAMBDA d : SectionOrDefault(d.section) = toc[i].section)
                      IN  [j \in 1..Len(own) |->
                             [href |-> encodeURIComponent(own[j].title), text |-> own[j].title]]

\* C14: in a document generateHTML produced, the anchor targets of the table
\* of contents and the ids of the page wrappers are the same set: the escaped
\* titles of the records.
C14_AnchorsMatchWrappers ==
    output.kind = "html" =>
        LET toc == output.html.toc
            anchors == UNION {{toc[i].entries[j].href : j \in 1..Len(toc[i].entries)} :
                                 i \in 1..Len(toc)}
            ids == {output.html.content[k].id : k \in 1..Len(output.html.content)}
        IN  /\ anchors = ids
            /\ ids = {encodeURIComponent(input.docs[k].title) : k \in 1..Len(input.docs)}

C14_Witness ==
    /\ output.kind = "html"
    /\ Len(input.docs) = 3
    /\ Len(output.html.toc) = 2
    /\ output.html.toc[1].section = "2"
    /\ \E k \in 1..3 : output.html.content[k].id = "A%20B"
    /\ \E k \in 1..3 : output.html.content[k].id = "Scene"

\* C15: generateContent emits one wrapper per record, in the order of the
\* input array (not grouped by section), each with the escaped title as its
\* id and the record's content as its body.
C15_OneWrapperPerRecord ==
    output.kind = "html" =>
        /\ Len(output.html.content) = Len(input.docs)
        /\ \A k \in 1..Len(input.docs) :
              /\ output.html.content[k].id = encodeURIComponent(input.docs[k].title)
              /\ output.html.content[k].body = input.docs[k].content

C15_Witness ==
    /\ output.kind = "html"
    /\ Len(input.docs) = 4
    /\ C13_Labels(input.docs) = <<"A", "B", "A", "Reference">>
    /\ input.docs[1].title = "A B"
    /\ input.docs[3].title = "Scene"
    /\ output.html.content[1].id = "A%20B"
    /\ output.html.content[3].body = <<"<p>", "Scene", "</p>">>

\* C17: the hasMalformedHTML flag of an extracted page is true exactly when
\* its serialized content contains '</div></p>', '<p></div>' or '<div></p>';
\* whatever the flag, extractContent returns the page and saves it to the
\* cache: the call fails only when no content region was found.
C17_ContainsBad(h) ==
    \E i \in 1..(Len(h) - 1) :
        \/ h[i] = "</div>" /\ h[i + 1] = "</p>"
        \/ h[i] = "<p>" /\ h[i + 1] = "</div>"
        \/ h[i] = "<div>" /\ h[i + 1] = "</p>"

C17_FlagIsAdvisory ==
    /\ output.kind = "returned" =>
          /\ output.result.keys = PageKeys
          /\ output.result.content = innerHTML(output.dom)
          /\ output.result.hasMalformedHTML = C17_ContainsBad(output.result.content)
          /\ cache[getCacheKey(UrlA)] = JsonFile(output.result)
    /\ (input.kind = "frame" /\ output.kind = "threw" /\ input.frame.handle = "ok") =>
          /\ output.error = "No content found"
          /\ ~input.frame.manual
          /\ \A i \in 1..Len(input.frame.dom) :
                Len(input.frame.dom[i].path) = 1 => input.frame.dom[i].tag = "script"

C17_Witness ==
    /\ output.kind = "returned"
    /\ output.result.hasMalformedHTML
    /\ \E i \in 1..(Len(output.result.content) - 1) :
          output.result.content[i] = "<p>" /\ output.result.content[i + 1] = "</div>"
    /\ cache[getCacheKey(UrlA)].kind = "json"
    /\ cache[getCacheKey(UrlA)].value.hasMalformedHTML

\* C18: after normalization the inner code element of every pre (the pre
\* itself when it holds no code element) has the class
\* "prettyprint lang-<name>", where <name> is the name of the language-<name>
\* class token it had, or javascript when it had none.
C18_Name(cls) ==
    LET named == {t \in 1..Len(cls) : cls[t][1] = "language-" /\ Len(cls[t]) > 1}
        first == CHOOSE t \in named : \A r \in named : t <= r
    IN  IF named = {} THEN <<"javascript">> ELSE SubSeq(cls[first], 2, Len(cls[first]))

C18_BlockLanguage ==
    output.kind = "returned" =>
        LET before == findContent(input.frame).dom
        IN  \A i \in 1..Len(before) :
                before[i].tag = "pre" =>
                    LET inner == QuerySelector(before, i, "code")
                        code == IF inner = 0 THEN i ELSE inner
                    IN  output.dom[code].cls =
                            << <<"prettyprint">>, <<"lang-">> \o C18_Name(before[code].cls) >>

\* C19: after path rewriting every img src and a href that began with '/' is
\* the base origin followed by the original reference, every reference that
\* was absolute is unchanged, and rewriting the result again changes nothing.
C19_PathsRewritten ==
    output.kind = "returned" =>
        LET before == findContent(input.frame).dom
        IN  /\ \A i \in 1..Len(before) :
                  before[i].tag \in {"img", "a"} =>
                      /\ StartsWithSlash(before[i].ref) =>
                            output.dom[i].ref = <<BASE_URL>> \o before[i].ref
                      /\ (before[i].ref # <<>> /\ before[i].ref[1] \in Origins) =>
                            output.dom[i].ref = before[i].ref
            /\ fixRelativePaths(output.dom) = output.dom

\* C21: on a cache miss, when page.$ or contentFrame() yields no handle, or
\* when neither .manual-content nor the fallback selection yields an element,
\* extractContent fails with an error of the "no content" kind and saves
\* nothing.  Without a handle nothing is evaluated in the frame; without a
\* content region the evaluation stops after findContent, before
\* processCodeBlocks, fixRelativePaths and the malformed-HTML check.
C21_NoContentKind == {"No iframe found", "Failed to get iframe content", "No content found"}

C21_NoRegion(frame) ==
    /\ ~frame.manual
    /\ \A i \in 1..Len(frame.dom) :
          Len(frame.dom[i].path) = 1 => frame.dom[i].tag \in {"script", "link", "style"}

C21_NoContentFails ==
    (input.kind = "frame" /\ output # NoOutput) =>
        /\ input.frame.handle # "ok" =>
              /\ output.kind = "threw"
              /\ output.error \in C21_NoContentKind
              /\ output.ran = <<>>
              /\ \A i \in 1..Len(browserLog) :
                    browserLog[i].op \notin {"frame.waitForSelector", "frame.evaluate"}
              /\ cache = EmptyCache
              /\ Count(fsLog, "writeFile cache") = 0
        /\ (input.frame.handle = "ok" /\ C21_NoRegion(input.frame)) =>
              /\ output.kind = "threw"
              /\ output.error = "No content found"
              /\ output.ran = <<"findContent">>
              /\ browserLog[Len(browserLog)].op = "frame.evaluate"
              /\ cache = EmptyCache
              /\ Count(fsLog, "writeFile cache") = 0
        /\ (input.frame.handle = "ok" /\ ~C21_NoRegion(input.frame)) =>
              /\ output.kind = "returned"
              /\ output.ran = <<"findContent", "processCodeBlocks", "fixRelativePaths",
                                "malformedPatterns">>

C21_Witness ==
    /\ input.kind = "frame"
    /\ output.kind = "threw"
    /\ output.error = "No content found"
    /\ Len(input.frame.dom) = 4
    /\ input.frame.dom[1].tag = "script"
    /\ output.ran = <<"findContent">>
    /\ Len(browserLog) = 6

\* C22: the link records returned by one discovery pass contain no two
\* records with the same url (of anchors that share a url only the last one
\* is kept).
C22_UniqueUrls ==
    \A i, j \in 1..Len(links) : links[i].url = links[j].url => i = j

\* C24: every navigation of a run targets the documentation root or the url
\* of a link this run's discovery returned (one of the first DEV_PAGE_LIMIT
\* in development mode), and no page url is navigated to more than once in
\* a run.
C24_Navigations == {i \in 1..Len(browserLog) : browserLog[i].op = "goto"}

C24_Selectable == IF config.DEV_MODE THEN 1..Min(DEV_PAGE_LIMIT, Len(links)) ELSE 1..Len(links)

C24_TargetsSelected ==
    \A i \in C24_Navigations :
        \/ browserLog[i].arg = DOCS_URL
        \/ \E k \in C24_Selectable : links[k].url = browserLog[i].arg

C24_NavigatedOnce ==
    /\ C24_TargetsSelected
    /\ \A i, j \in C24_Navigations :
          (browserLog[i].arg = browserLog[j].arg /\ browserLog[i].arg # DOCS_URL) => i = j

\* C28: the document records are derived one to one, in order, from the
\* selected links: the k-th record has the k-th link's text as title (also
\* when the page came from a cache entry that stores another title), the
\* content of the page resolved for the k-th link's url (the cache entry's
\* when there was one, the site's otherwise) and the k-th link's section,
\* "Reference" standing in for an empty one; when the loop is over there are
\* as many records as selected links.
C28_Resolved(k) ==
    IF Truthy(calls[k].cached) THEN calls[k].file.value.content
    ELSE InnerHTML(pagesToProcess[k].url)

C28_RecordsFollowLinks ==
    /\ Len(documentation) <= Len(pagesToProcess)
    /\ \A k \in 1..Len(documentation) :
          /\ documentation[k].title = pagesToProcess[k].text
          /\ documentation[k].content = C28_Resolved(k)
          /\ documentation[k].section =
                (IF pagesToProcess[k].section = "" THEN "Reference"
                 ELSE pagesToProcess[k].section)
    /\ (pc \in {"persist", "Done"} \/ html # NoHtml) =>
          Len(documentation) = Len(pagesToProcess)

C28_Witness ==
    /\ pc = "Done"
    /\ Len(pagesToProcess) = 2
    /\ Len(documentation) = 2
    /\ pagesToProcess[1].section = ""
    /\ documentation[1].section = "Reference"
    /\ calls[2].cached.title = "Cached Page"
    /\ documentation[2].title = "Scene"
    /\ documentation[2].content = <<"<div>", "Cached content", "</div>">>

\* C29: with the clear-cache directive, initializeCache asks for the removal
\* of the cache directory and then for its creation, whatever the removal
\* did: a removal that fails is not what fails the run, a directory that is
\* not there is removed without error, and when the creation succeeds the
\* run ends successfully with the directory in place.
C29_Step ==
    (pc = "start" /\ CLEAR_CACHE /\ pc' # "start") =>
        /\ Len(fsLog') = 2
        /\ fsLog'[1] \in {"rm", "rm failed"}
        /\ fsLog'[2] \in {"mkdir cache", "mkdir cache failed"}
        /\ ~cacheDir => fsLog'[1] = "rm"
        /\ fsLog'[1] = "rm failed" => cache' = cache
        /\ fsLog'[2] = "mkdir cache" => (pc' = "Done" /\ error' = NoError /\ cacheDir')
        /\ fsLog'[2] = "mkdir cache failed" => pc' = "Failed"

C29_WipeFailureTolerated == [][C29_Step]_vars

C29_Witness ==
    /\ CLEAR_CACHE
    /\ pc = "Done"
    /\ error = NoError
    /\ fsLog = <<"rm failed", "mkdir cache">>
    /\ cacheDir
    /\ cache # EmptyCache

\* C30: one call of extractContent writes to the cache at most once, only
\* when the lookup missed and the content was extracted, and only the file
\* of its own url under the current version; a call that fails (navigation,
\* iframe wait, no handle, no content) or that is answered from the cache
\* leaves every cache file as it was.
C30_Writes(log) == Count(log, "writeFile cache")

C30_Step ==
    Len(calls') = Len(calls) + 1 =>
        LET c == calls'[Len(calls')]
            written == C30_Writes(fsLog') - C30_Writes(fsLog)
        IN  /\ written \in {0, 1}
            /\ written = 1 => (c.fault = "ok" /\ ~Truthy(c.cached) /\ c.write # "none")
            /\ written = 0 => cache' = cache
            /\ (Truthy(c.cached) \/ c.fault # "ok") => (written = 0 /\ cache' = cache)
            /\ \A f \in CacheFiles :
                  f # CacheFile(md5(c.url), config.CACHE_VERSION) => cache'[f] = cache[f]
            /\ c.write = "ok" =>
                  cache'[CacheFile(md5(c.url), config.CACHE_VERSION)] = JsonFile(c.result)

C30_CacheWrittenOnce == [][C30_Step]_vars

C30_Witness ==
    /\ Len(calls) = 2
    /\ calls[1].url = calls[2].url
    /\ calls[1].write = "ok"
    /\ Truthy(calls[2].cached)
    /\ calls[2].write = "none"
    /\ C30_Writes(fsLog) = 1
    /\ cache[getCacheKey(calls[1].url)] = JsonFile(calls[1].result)

\* C23: pages are processed strictly one at a time.  The browser operations
\* of the run are those of discovery followed by one block per call of
\* extractContent, in the order of the selected links; within a block they
\* are the awaited operations on that call's own url, in order, each issued
\* once; the cache lookup of a call comes before its navigation and its
\* cache write after its last browser operation, and the lookup and
\* navigation of the next page come after both.
C23_PageOps(url) ==
    <<Op("goto", url), Op("waitForSelector", "iframe"), Op("$", "iframe"),
      Op("contentFrame", "iframe"), Op("frame.waitForSelector", "body"),
      Op("frame.evaluate", "extractFrameContent")>>

C23_FileOps(c) == SubSeq(fsLog, c.fsBefore + 1, c.fsAfter)

C23_OneAtATime ==
    \A k \in 1..Len(calls) :
        LET c == calls[k]
            n == c.after - c.before
        IN  /\ c.url = pagesToProcess[k].url
            /\ n \in 0..6
            /\ CallOps(c) = SubSeq(C23_PageOps(c.url), 1, n)
            /\ C23_FileOps(c) \in {<<>>, <<"readFile cache">>,
                                   <<"readFile cache", "writeFile cache">>}
            /\ (n > 0 /\ config.USE_CACHE) => fsLog[c.fsBefore + 1] = "readFile cache"
            /\ Len(C23_FileOps(c)) = 2 => n = 6
            /\ IF k = 1
                  THEN /\ c.before > 0
                       /\ browserLog[c.before] = Op("evaluate", "docLinks")
                       /\ \A i \in 1..c.before : browserLog[i].arg \in {DOCS_URL, "#panel", "docLinks"}
                  ELSE /\ c.before = calls[k - 1].after
                       /\ c.fsBefore = calls[k - 1].fsAfter
            /\ k = Len(calls) => Len(browserLog) = c.after
            /\ (k = Len(calls) /\ pc \in {"extract", "finally"} /\ html = NoHtml) =>
                  Len(fsLog) = c.fsAfter

C23_Witness ==
    /\ Len(calls) = 2
    /\ calls[1].url # calls[2].url
    /\ calls[1].after = calls[1].before + 6
    /\ calls[1].write = "ok"
    /\ calls[2].before = calls[1].after
    /\ calls[2].after = calls[2].before + 6
    /\ calls[2].write = "ok"
    /\ fsLog = <<"mkdir cache", "readFile cache", "writeFile cache",
                 "readFile cache", "writeFile cache">>

\* C25: a run passes through its stages in the order cache setup, browser,
\* discovery, extraction loop, assembly, persistence, teardown and end,
\* never going back and never skipping one, except that a clear-cache run
\* ends right after cache setup and that an error leaves for the teardown
\* (or, in cache setup, for the failed end) at once.  The cache directory is
\* ensured before the browser is obtained, discovery has returned before the
\* first cache lookup, every selected page has been extracted before the
\* document is assembled, and a run with an unrecovered error ends Failed.
C25_Normal ==
    {<<"start", "browser">>, <<"browser", "discover">>, <<"discover", "delay">>,
     <<"delay", "discover">>, <<"discover", "extract">>, <<"extract", "persist">>,
     <<"persist", "finally">>, <<"finally", "Done">>}

C25_Step ==
    /\ pc' # pc =>
          \/ <<pc, pc'>> \in C25_Normal /\ error = NoError /\ error' = NoError
          \/ pc = "start" /\ pc' = "Done" /\ CLEAR_CACHE /\ error' = NoError
          \/ pc = "start" /\ pc' = "Failed" /\ error' # NoError
          \/ pc \in {"browser", "discover", "extract", "persist"}
               /\ pc' = "finally" /\ error = NoError /\ error' # NoError
          \/ pc = "finally" /\ pc' = "Failed" /\ error # NoError /\ error' = error
    /\ (pc = "start" /\ pc' = "browser") =>
          (~CLEAR_CACHE /\ cacheDir' /\ fsLog'[Len(fsLog')] = "mkdir cache")
    /\ (pc = "discover" /\ pc' = "extract") =>
          (links' = panel /\ calls = <<>> /\ Count(fsLog, "readFile cache") = 0)
    /\ (pc = "extract" /\ pc' = "persist") =>
          /\ Len(calls) = Len(pagesToProcess)
          /\ \A k \in 1..Len(calls) : calls[k].outcome = "returned"
          /\ html = NoHtml /\ html' # NoHtml
    /\ (pc = "persist" /\ pc' = "finally" /\ error' = NoError) =>
          fsLog'[Len(fsLog')] = "writeFile output"
    /\ pc \in {"Done", "Failed"} => pc' = pc
    /\ error # NoError => error' = error

C25_Order ==
    /\ (launched \/ browserLog # <<>>) => (cacheDir /\ Count(fsLog, "mkdir cache") = 1)
    /\ calls # <<>> =>
          /\ attemptLog # <<>>
          /\ attemptLog[Len(attemptLog)].outcome = "ok"
          /\ calls[1].before > 0
          /\ browserLog[calls[1].before] = Op("evaluate", "docLinks")
          /\ links = panel
          /\ SubSeq(fsLog, 1, calls[1].fsBefore) = <<"mkdir cache">>
    /\ html # NoHtml => Len(documentation) = Len(pagesToProcess)
    /\ error # NoError => pc \in {"finally", "Failed"}
    /\ pc = "Done" => error = NoError
    /\ pc = "Failed" => error # NoError

C25_StagesInOrder == []C25_Order /\ [][C25_Step]_vars

C25_Witness ==
    /\ pc = "Done"
    /\ ~CLEAR_CACHE
    /\ delays = 1
    /\ Len(calls) = 2
    /\ html # NoHtml
    /\ outputFile.written
    /\ fsLog[Len(fsLog)] = "writeFile output"

\* C26: with caching enabled, a url whose extraction was saved is not
\* navigated to again while the cache is not cleared and the version tag
\* stays the same: not for a later link with the same url in the same run,
\* and not in a later run.  A run over the same links whose pages were all
\* saved before issues no navigation but the discovery's, and the document
\* it assembles is the one the earlier run assembled.
C26_Kept(k) ==
    /\ previous[k].version = config.CACHE_VERSION
    /\ ~CLEAR_CACHE
    /\ \A j \in (k + 1)..Len(previous) :
          previous[j].version = previous[k].version /\ ~previous[j].cleared

C26_Stored(url) ==
    \E k \in 1..Len(previous) : url \in previous[k].extracted /\ C26_Kept(k)

C26_NavigatedTo(url) == \E i \in 1..Len(browserLog) : browserLog[i] = Op("goto", url)

C26_RerunsUseCache ==
    config.USE_CACHE =>
        /\ \A url \in Urls : C26_Stored(url) => ~C26_NavigatedTo(url)
        /\ \A j, k \in 1..Len(calls) :
              (j < k /\ calls[j].url = calls[k].url /\ calls[j].write = "ok") =>
                  (calls[k].after = calls[k].before /\ Truthy(calls[k].cached))
        /\ (\A n \in 1..Len(panel) : C26_Stored(panel[n].url)) =>
              /\ \A i \in 1..Len(browserLog) :
                    browserLog[i].op = "goto" => browserLog[i].arg = DOCS_URL
              /\ \A k \in 1..Len(previous) :
                    (html # NoHtml /\ previous[k].html # NoHtml) => html = previous[k].html

C26_Witness ==
    /\ Len(previous) = 1
    /\ previous[1].outcome = "Done"
    /\ previous[1].extracted = {UrlA, UrlB}
    /\ previous[1].html # NoHtml
    /\ pc = "Done"
    /\ Len(calls) = 2
    /\ Len(browserLog) = 3
    /\ browserLog[1] = Op("goto", DOCS_URL)
    /\ html = previous[1].html

\* C27: the cache file of a url depends on the url and the version tag
\* only.  An entry saved under the current version and not cleared since is
\* found again by a later run under that version, and a lookup is answered
\* from the cache only with an entry saved under the current version, in
\* this run or an earlier one: after a change of the tag every url saved
\* before is a miss.
C27_SavedUnder(url, version) ==
    \E i \in 1..Len(previous) : previous[i].version = version /\ url \in previous[i].extracted

C27_KeyIsUrlAndVersion ==
    \A k \in 1..Len(calls) :
        LET url == calls[k].url
        IN  /\ Truthy(calls[k].cached) =>
                  \/ C27_SavedUnder(url, config.CACHE_VERSION)
                  \/ \E j \in 1..(k - 1) : calls[j].url = url /\ calls[j].write = "ok"
            /\ (config.USE_CACHE /\ C26_Stored(url)) => Truthy(calls[k].cached)
            /\ \A j \in 1..Len(calls) :
                  (calls[j].url = url /\ calls[j].write = "ok" /\ j < k) =>
                      calls[k].file = JsonFile(calls[j].result)

C27_Witness ==
    /\ Len(previous) = 1
    /\ previous[1].version = CACHE_VERSION
    /\ UrlA \in previous[1].extracted
    /\ config.CACHE_VERSION = "2"
    /\ ~CLEAR_CACHE
    /\ Len(calls) > 0
    /\ calls[Len(calls)].url = UrlA
    /\ ~Truthy(calls[Len(calls)].cached)
    /\ calls[Len(calls)].file = Missing
    /\ C26_NavigatedTo(UrlA)
    /\ cache[CacheFile(md5(UrlA), CACHE_VERSION)] # Missing

\* C31: every value extractContent returns, from the cache or freshly
\* extracted, is a complete page object with a title, a string content and
\* a boolean hasMalformedHTML, so every record handed to assembly has a
\* defined content, whatever parseable payload the cache file holds.
C31_CompletePages ==
    /\ \A k \in 1..Len(calls) :
          calls[k].outcome = "returned" =>
              (calls[k].result.type = "object" /\ calls[k].result.keys = PageKeys)
    /\ \A k \in 1..Len(documentation) : documentation[k].defined

\* C32: in the document assembled from any sequence of records, the ids of
\* the page wrappers are pairwise distinct, and every link of the table of
\* contents targets exactly one wrapper.
C32_Targets(href) ==
    {k \in 1..Len(output.html.content) : output.html.content[k].id = href}

C32_DistinctWrapperIds ==
    output.kind = "html" =>
        /\ \A j, k \in 1..Len(output.html.content) :
              output.html.content[j].id = output.html.content[k].id => j = k
        /\ \A i \in 1..Len(output.html.toc) :
              \A j \in 1..Len(output.html.toc[i].entries) :
                  Cardinality(C32_Targets(output.html.toc[i].entries[j].href)) = 1

\* C33: for any sequence of records the table of contents lists every
\* record exactly once, under the heading of its own section ("Reference"
\* for an empty section): it has as many entries as there are records, one
\* heading per section, and under each heading as many entries of a title
\* as there are records of that section with that title.
C33_Section(doc) == IF doc.section = "" THEN "Reference" ELSE doc.section

C33_Listed(toc, docs) ==
    /\ \A i, j \in 1..Len(toc) : toc[i].section = toc[j].section => i = j
    /\ \A k \in 1..Len(docs) : \E i \in 1..Len(toc) : toc[i].section = C33_Section(docs[k])
    /\ \A i \in 1..Len(toc) :
          /\ Len(toc[i].entries) =
                Cardinality({k \in 1..Len(docs) : C33_Section(docs[k]) = toc[i].section})
          /\ \A title \in {docs[k].title : k \in 1..Len(docs)} :
                Cardinality({j \in 1..Len(toc[i].entries) : toc[i].entries[j].text = title})
                  = Cardinality({k \in 1..Len(docs) :
                                    /\ C33_Section(docs[k]) = toc[i].section
                                    /\ docs[k].title = title})

C33_EveryRecordListedOnce ==
    (input.kind = "docs" /\ output # NoOutput) =>
        /\ output.kind = "html"
        /\ C33_Listed(output.html.toc, input.docs)

\* C34: after normalization the class "inline" is carried exactly by the
\* code elements that are not inside a pre: a code element inside a pre,
\* directly or through other elements, has the "prettyprint lang-<name>"
\* class of its block and not "inline".
C34_InPre(dom, i) == \E j \in 1..Len(dom) : dom[j].tag = "pre" /\ IsInside(dom, i, j)

C34_InlineOutsideBlocks ==
    output.kind = "returned" =>
        \A i \in 1..Len(output.dom) :
            LET el == output.dom[i]
            IN  /\ el.cls = << <<"inline">> >> <=>
                      (el.tag = "code" /\ ~C34_InPre(output.dom, i))
                /\ (el.tag = "code" /\ C34_InPre(output.dom, i)) =>
                      (Len(el.cls) = 2 /\ el.cls[1] = <<"prettyprint">>
                                       /\ el.cls[2][1] = "lang-")
====
